---- MODULE Spec2Model ----
(***************************************************************************)
(* A model of setup.py: the module-level preamble (generator lookup,       *)
(* build-directory cleanup), CMakeBuildExt.build_extension driven over the *)
(* registered extensions, and InstallHeaders.run over the header roots.    *)
(*                                                                         *)
(* A Python string is a sequence of pieces whose concatenation is the      *)
(* text.  Strings the code inspects character by character (the extra      *)
(* arguments variable, paths handled by the header installer) are          *)
(* sequences of single characters.                                         *)
(***************************************************************************)
EXTENDS Integers, Sequences, FiniteSets, TLC

VARIABLES
    pc,            \* position of the interpreter in setup.py
    environ,       \* os.environ: variable name -> string
    which_cmake,   \* what shutil.which('cmake') returns
    CMAKE_EXE,     \* the module global of line 30
    build_exists,  \* whether the top-level directory 'build' is on disk
    build_initial, \* build_exists when the interpreter started (history)
    command,       \* the distutils command setup() runs
    extensions,    \* ext_modules, in registration order
    debug,         \* build_ext's debug flag
    idx,           \* index of the extension build_ext is at
    build_temp_exists, \* whether self.build_temp is on disk
    procs,         \* every child process spawned so far, in order
    running,       \* indices in procs of the children still running
    events,        \* history of the steps taken
    src_files,     \* the source tree: path -> [content, mtime]
    headers,       \* distribution.headers: None or the list of header roots
    force,         \* install_headers' force option
    installed,     \* files written by the installer: path -> [content, mtime]
    dirs_made,     \* directories passed to mkpath
    outfiles,      \* self.outfiles
    records,       \* one entry per header file handled (history)
    root_i,        \* index of the header root being walked
    walked         \* files of that root already yielded by os.walk

instVars == <<src_files, headers, force, installed, dirs_made, outfiles,
              records, root_i, walked>>

bldVars == <<extensions, debug, idx, build_temp_exists, procs, running>>

vars == <<pc, environ, which_cmake, CMAKE_EXE, build_exists, build_initial,
          command, events, bldVars, instVars>>

(***************************************************************************)
(* Bounds.                                                                 *)
(***************************************************************************)
MaxExts == 3
MaxEnvLen == 2

(***************************************************************************)
(* Python values.                                                          *)
(***************************************************************************)
\* The None object: a reserved value no modelled string equals.
None == <<"None">>

\* bool(v) for v a string or None.
Truthy(v) == v # None /\ v # <<>>

\* os.environ.get(k, d)
EnvGet(e, k, d) == IF k \in DOMAIN e THEN e[k] ELSE d

\* An environment from a table in which None marks an unset variable.
MkEnv(vals) == [k \in {n \in DOMAIN vals : vals[n] # None} |-> vals[k]]

\* All sequences over S of length 0..n.
SeqsUpTo(S, n) == UNION {[1..k -> S] : k \in 0..n}

\* str.split(sep) for a one-character sep: the fields between separators,
\* empty fields included.
RECURSIVE SplitAcc(_, _, _)
SplitAcc(s, sep, cur) ==
    IF s = <<>> THEN <<cur>>
    ELSE IF Head(s) = sep THEN <<cur>> \o SplitAcc(Tail(s), sep, <<>>)
    ELSE SplitAcc(Tail(s), sep, Append(cur, Head(s)))

Split(s, sep) == SplitAcc(s, sep, <<>>)

\* [x for x in xs if x]
NonEmpty(xs) == SelectSeq(xs, LAMBDA x : x # <<>>)

\* os.path.dirname on a string whose separators are pieces of their own:
\* everything before the last "/" (trailing separators stripped).
RECURSIVE RStripSep(_)
RStripSep(p) ==
    IF p # <<>> /\ p[Len(p)] = "/" /\ \E k \in 1..Len(p) : p[k] # "/"
    THEN RStripSep(SubSeq(p, 1, Len(p) - 1)) ELSE p

Dirname(p) ==
    LET slashes == {k \in 1..Len(p) : p[k] = "/"}
        i == IF slashes = {} THEN 0
             ELSE CHOOSE k \in slashes : \A j \in slashes : j <= k
    IN  RStripSep(SubSeq(p, 1, i))

\* os.path.abspath of a relative path: the working directory joined to it.
Abspath(p) == IF p # <<>> /\ p[1] = "/" THEN p ELSE <<"/", "cwd", "/">> \o p

(***************************************************************************)
(* Inputs.                                                                 *)
(***************************************************************************)
Chars == {"a", " ", "\t"}
Whitespace == {" ", "\t"}

ExePath == <<"/", "opt", "/", "cmake">>
WhichPath == <<"/", "usr", "/", "cmake">>

\* Descriptors: CMakeExtension(name, sourcedir) and plain Extension.
CMakeExtension(name, sourcedir) ==
    [cls |-> "CMakeExtension", name |-> name, sourcedir |-> Abspath(sourcedir)]

Extension(name) == [cls |-> "Extension", name |-> name, sourcedir |-> <<>>]

Descriptors == {CMakeExtension("rmm", <<"cpp">>),
                CMakeExtension("cudf", <<"cpp">>),
                Extension("bindings")}

isCMakeExtension(ext) == ext.cls = "CMakeExtension"

\* build_ext's directories.
build_lib == <<"build", "/", "lib">>
build_temp == <<"build", "/", "temp">>

\* build_ext.get_ext_fullpath(name) for an unqualified name.
get_ext_fullpath(name) == build_lib \o <<"/", name, ".so">>

(***************************************************************************)
(* Lines 27-34: environment defaults and generator lookup.                 *)
(***************************************************************************)
\* Variant: falls back to the bare name 'cmake' when nothing is found.
resolve_CMAKE_EXE_default(env, which) ==
    IF Truthy(EnvGet(env, "CMAKE_EXE", None)) THEN env["CMAKE_EXE"]
    ELSE IF Truthy(which) THEN which ELSE <<"cmake">>

\* os.environ.get('CMAKE_EXE', shutil.which('cmake'))
resolve_CMAKE_EXE(env, which) == EnvGet(env, "CMAKE_EXE", which)

Event(kind, ext, proc, rc) == [ev |-> kind, ext |-> ext, proc |-> proc, rc |-> rc]

ResolveCmake ==
    /\ pc = "import"
    /\ LET env == [k \in DOMAIN environ \cup {"RMM_HEADER", "CUDF_INCLUDE_DIR"} |->
                      IF k = "RMM_HEADER" THEN <<"cpp/thirdparty/rmm/include/rmm/rmm_api.h">>
                      ELSE IF k = "CUDF_INCLUDE_DIR" THEN <<"cpp/include/cudf">>
                      ELSE environ[k]]
           exe == resolve_CMAKE_EXE(env, which_cmake)
       IN  /\ environ' = env
           /\ CMAKE_EXE' = exe
           /\ IF ~Truthy(exe)
              THEN /\ pc' = "exit1"
                   /\ events' = Append(events, Event("sysexit", 0, 0, 1))
              ELSE /\ pc' = "rmtree"
                   /\ events' = events
    /\ UNCHANGED instVars
    /\ UNCHANGED <<which_cmake, build_exists, build_initial, command, extensions,
                   debug, idx, build_temp_exists, procs, running>>

(***************************************************************************)
(* Line 106: shutil.rmtree('build', ignore_errors=True).                   *)
(***************************************************************************)
\* Variant: the directory is left alone.
CleanBuildDir_skip ==
    /\ pc = "rmtree"
    /\ pc' = "setup"
    /\ UNCHANGED instVars
    /\ UNCHANGED <<environ, which_cmake, CMAKE_EXE, build_exists, build_initial,
                   command, extensions, debug, idx, build_temp_exists, procs,
                   running, events>>

CleanBuildDir ==
    /\ pc = "rmtree"
    /\ build_exists' = FALSE
    /\ build_temp_exists' = FALSE
    /\ events' = Append(events, Event("rmtree", 0, 0, 0))
    /\ pc' = "setup"
    /\ UNCHANGED instVars
    /\ UNCHANGED <<environ, which_cmake, CMAKE_EXE, build_initial, command,
                   extensions, debug, idx, procs, running>>

(***************************************************************************)
(* Lines 145-182: setup() runs build_ext over ext_modules.                 *)
(***************************************************************************)
ExtensionLists == UNION {[1..k -> Descriptors] : k \in 1..MaxExts}

SetupBuildExt ==
    /\ pc = "setup"
    /\ \E exts \in ExtensionLists, dbg \in BOOLEAN :
          /\ extensions' = exts
          /\ debug' = dbg
    /\ command' = "build_ext"
    /\ idx' = 1
    /\ pc' = "build_ext"
    /\ UNCHANGED instVars
    /\ UNCHANGED <<environ, which_cmake, CMAKE_EXE, build_exists, build_initial,
                   build_temp_exists, procs, running, events>>

(***************************************************************************)
(* Lines 52-78: CMakeBuildExt.build_extension.                             *)
(***************************************************************************)
\* Variant: the fields of the split are appended unfiltered.
cmake_args_nofilter(ext, dbg, env, exe) ==
    LET output_dir == Abspath(Dirname(get_ext_fullpath(ext.name)))
        build_type == IF dbg THEN "Debug" ELSE "Release"
    IN  <<exe,
          ext.sourcedir,
          <<"-DCMAKE_LIBRARY_OUTPUT_DIRECTORY=">> \o output_dir,
          <<"-DCMAKE_BUILD_TYPE=", build_type>>>>
        \o Split(EnvGet(env, "CMAKE_COMMON_VARIABLES", <<>>), " ")

\* Lines 54-65.
cmake_args(ext, dbg, env, exe) ==
    LET output_dir == Abspath(Dirname(get_ext_fullpath(ext.name)))
        build_type == IF dbg THEN "Debug" ELSE "Release"
    IN  <<exe,
          ext.sourcedir,
          <<"-DCMAKE_LIBRARY_OUTPUT_DIRECTORY=">> \o output_dir,
          <<"-DCMAKE_BUILD_TYPE=", build_type>>>>
        \o NonEmpty(Split(EnvGet(env, "CMAKE_COMMON_VARIABLES", <<>>), " "))

\* Variant: make without a target.
make_args_all(ext) == <<<<"make">>, <<"-j">>>>

\* Line 73.
make_args(ext) == <<<<"make">>, <<"-j">>, <<ext.name>>>>

Proc(argv, cwd, env, ext) == [argv |-> argv, cwd |-> cwd, env |-> env, ext |-> ext]

\* The position after extension i has been built.
AfterExt(i) == IF i >= Len(extensions) THEN "done" ELSE "build_ext"

\* Lines 53-72 up to the start of the configure child: the argument list,
\* the environment copy, the build-temp directory, the spawn.
build_extension_cmake ==
    /\ pc = "build_ext"
    /\ idx <= Len(extensions)
    /\ isCMakeExtension(extensions[idx])
    /\ LET ext == extensions[idx]
           env == environ
       IN  /\ procs' = Append(procs,
                  Proc(cmake_args(ext, debug, environ, CMAKE_EXE), build_temp, env, idx))
           /\ running' = running \cup {Len(procs) + 1}
           /\ events' = Append(events, Event("spawn", idx, Len(procs) + 1, 0))
    /\ build_temp_exists' = TRUE
    /\ build_exists' = TRUE
    /\ pc' = "cmake"
    /\ UNCHANGED instVars
    /\ UNCHANGED <<environ, which_cmake, CMAKE_EXE, build_initial, command,
                   extensions, debug, idx>>

\* Lines 70-75: the configure child exits; check_call raises on a non-zero
\* status, otherwise the build child is spawned.
\* Variant: the build child is spawned without waiting for the configure
\* child.
cmake_returns_nowait ==
    /\ pc = "cmake"
    /\ LET p == Len(procs)
           ext == extensions[idx]
       IN  /\ procs' = Append(procs, Proc(make_args(ext), build_temp, procs[p].env, idx))
           /\ running' = running \cup {p + 1}
           /\ events' = Append(events, Event("spawn", idx, p + 1, 0))
           /\ pc' = "make"
    /\ UNCHANGED instVars
    /\ UNCHANGED <<environ, which_cmake, CMAKE_EXE, build_exists, build_initial,
                   command, extensions, debug, idx, build_temp_exists>>

\* Variant: the configure child's exit status is ignored.
cmake_returns_ignore ==
    /\ pc = "cmake"
    /\ \E rc \in {0, 1} :
          LET p == Len(procs)
              ext == extensions[idx]
          IN  /\ procs' = Append(procs, Proc(make_args(ext), build_temp, procs[p].env, idx))
              /\ running' = (running \ {p}) \cup {p + 1}
              /\ events' = events \o <<Event("exit", idx, p, rc),
                                       Event("spawn", idx, p + 1, 0)>>
              /\ pc' = "make"
    /\ UNCHANGED instVars
    /\ UNCHANGED <<environ, which_cmake, CMAKE_EXE, build_exists, build_initial,
                   command, extensions, debug, idx, build_temp_exists>>

\* Lines 70-75 as written.
cmake_returns ==
    /\ pc = "cmake"
    /\ \E rc \in {0, 1} :
          LET p == Len(procs)
              ext == extensions[idx]
          IN  IF rc # 0
              THEN /\ procs' = procs
                   /\ running' = running \ {p}
                   /\ events' = events \o <<Event("exit", idx, p, rc),
                                            Event("raise", idx, p, rc)>>
                   /\ pc' = "error"
              ELSE /\ procs' = Append(procs,
                          Proc(make_args(ext), build_temp, procs[p].env, idx))
                   /\ running' = (running \ {p}) \cup {p + 1}
                   /\ events' = events \o <<Event("exit", idx, p, rc),
                                            Event("spawn", idx, p + 1, 0)>>
                   /\ pc' = "make"
    /\ UNCHANGED instVars
    /\ UNCHANGED <<environ, which_cmake, CMAKE_EXE, build_exists, build_initial,
                   command, extensions, debug, idx, build_temp_exists>>

\* Lines 73-76: the build child exits.
make_returns ==
    /\ pc = "make"
    /\ \E rc \in {0, 1} :
          LET p == Len(procs)
          IN  /\ running' = running \ {p}
              /\ IF rc # 0
                 THEN /\ events' = events \o <<Event("exit", idx, p, rc),
                                               Event("raise", idx, p, rc)>>
                      /\ pc' = "error"
                      /\ idx' = idx
                 ELSE /\ events' = Append(events, Event("exit", idx, p, rc))
                      /\ pc' = AfterExt(idx)
                      /\ idx' = idx + 1
    /\ UNCHANGED instVars
    /\ UNCHANGED <<environ, which_cmake, CMAKE_EXE, build_exists, build_initial,
                   command, extensions, debug, build_temp_exists, procs>>

\* Lines 77-78: super().build_extension(ext), which compiles in-process
\* and either returns or raises a compile error.
build_extension_super ==
    /\ pc = "build_ext"
    /\ idx <= Len(extensions)
    /\ ~isCMakeExtension(extensions[idx])
    /\ \E ok \in BOOLEAN :
          IF ok
          THEN /\ events' = Append(events, Event("super", idx, 0, 0))
               /\ pc' = AfterExt(idx)
               /\ idx' = idx + 1
          ELSE /\ events' = events \o <<Event("super", idx, 0, 1),
                                        Event("raise", idx, 0, 1)>>
               /\ pc' = "error"
               /\ idx' = idx
    /\ build_exists' = TRUE
    /\ UNCHANGED instVars
    /\ UNCHANGED <<environ, which_cmake, CMAKE_EXE, build_initial, command,
                   extensions, debug, build_temp_exists, procs, running>>

(***************************************************************************)
(* Lines 81-102: InstallHeaders.run.                                       *)
(***************************************************************************)
MaxRoots == 2

install_dir == <<"/", "p">>

\* The files that may exist below the working directory, and their bytes.
FileI_A == <<"i", "/", "a", ".", "h">>
FileI_S_I_A == <<"i", "/", "s", "/", "i", "/", "a", ".", "h">>
FileS_A == <<"s", "/", "a", ".", "h">>
FileI_C == <<"i", "/", "a", ".", "c">>

FileUniverse == {FileI_A, FileI_S_I_A, FileS_A, FileI_C}

ContentOf(f) == IF f = FileI_A THEN "x" ELSE "y"

Mtimes == {1, 2}

\* The header roots a distribution may declare.
Roots == {<<"i", "/">>, <<"i">>, <<"s", "/">>}

\* str.endswith
EndsWith(s, suf) ==
    Len(s) >= Len(suf) /\ SubSeq(s, Len(s) - Len(suf) + 1, Len(s)) = suf

\* str.replace(old, '') for a non-empty old: every non-overlapping
\* occurrence, scanning from the left, is removed.
RECURSIVE Replace(_, _)
Replace(s, old) ==
    IF Len(s) < Len(old) THEN s
    ELSE IF SubSeq(s, 1, Len(old)) = old
         THEN Replace(SubSeq(s, Len(old) + 1, Len(s)), old)
         ELSE <<Head(s)>> \o Replace(Tail(s), old)

\* posixpath.join(a, b)
PathJoin(a, b) ==
    IF b # <<>> /\ b[1] = "/" THEN b
    ELSE IF a = <<>> \/ a[Len(a)] = "/" THEN a \o b
    ELSE a \o <<"/">> \o b

\* The components of a path.
Comps(p) == NonEmpty(Split(p, "/"))

IsPrefix(a, b) == Len(a) <= Len(b) /\ SubSeq(b, 1, Len(a)) = a

\* The directory components and the file name of a source file.
DirOf(f) == SubSeq(Comps(f), 1, Len(Comps(f)) - 1)
NameOf(f) == Comps(f)[Len(Comps(f))]

\* The files os.walk(root) reaches: those in the directory root names or
\* below it.
FilesUnder(root, files) == {f \in DOMAIN files : IsPrefix(Comps(root), DirOf(f))}

\* The path os.walk and line 97 build for a file: dirpath is the root
\* string joined with each directory name below it, then the file name.
RECURSIVE JoinAll(_, _)
JoinAll(base, comps) ==
    IF comps = <<>> THEN base
    ELSE JoinAll(PathJoin(base, Head(comps)), Tail(comps))

WalkPath(root, f) ==
    JoinAll(root, SubSeq(Comps(f), Len(Comps(root)) + 1, Len(Comps(f))))

\* os.walk is top-down: a directory's files come before those of the
\* directories below it; the order within one directory is the listing's.
NextInWalk(root, files, done) ==
    LET left == FilesUnder(root, files) \ done
    IN  {f \in left :
            \A g \in left : ~(DirOf(g) # DirOf(f) /\ IsPrefix(DirOf(g), DirOf(f)))}

\* Lines 98-99.
install_target(root, path) == PathJoin(install_dir, Replace(path, root))

\* distutils' newer(source, target).
newer(src, dst, inst) ==
    IF dst \notin DOMAIN inst THEN TRUE ELSE src.mtime > inst[dst].mtime

\* Command.copy_file(path, install_target): file_util.copy_file with
\* update = not force and the times preserved; returns (dst, copied).
\* Variant: the copy is made whatever the times.
copy_file_always(f, dst, files, inst, frc) ==
    [inst |-> [d \in DOMAIN inst \cup {dst} |-> IF d = dst THEN files[f] ELSE inst[d]],
     copied |-> 1]

\* Line 101.
copy_file(f, dst, files, inst, frc) ==
    IF ~frc /\ ~newer(files[f], dst, inst)
    THEN [inst |-> inst, copied |-> 0]
    ELSE [inst |-> [d \in DOMAIN inst \cup {dst} |-> IF d = dst THEN files[f] ELSE inst[d]],
          copied |-> 1]

\* Line 180 and the command's options.
HeaderLists == {None} \cup UNION {[1..k -> Roots] : k \in 0..MaxRoots}

SetupInstallHeaders ==
    /\ pc = "setup"
    /\ \E hs \in HeaderLists, frc \in BOOLEAN :
          /\ headers' = hs
          /\ force' = frc
    /\ command' = "install_headers"
    /\ pc' = "run"
    /\ UNCHANGED <<environ, which_cmake, CMAKE_EXE, build_exists, build_initial,
                   events, bldVars>>
    /\ UNCHANGED <<src_files, installed, dirs_made, outfiles, records, root_i, walked>>

\* Variant: no early return for an empty header list.
run_begin_noreturn ==
    /\ pc = "run"
    /\ dirs_made' = dirs_made \cup {install_dir}
    /\ root_i' = 1
    /\ pc' = IF Truthy(headers) THEN "walk" ELSE "installed"
    /\ UNCHANGED <<environ, which_cmake, CMAKE_EXE, build_exists, build_initial,
                   command, events, bldVars>>
    /\ UNCHANGED <<src_files, headers, force, installed, outfiles, records, walked>>

\* Lines 89-92.
run_begin ==
    /\ pc = "run"
    /\ IF ~Truthy(headers)
       THEN /\ pc' = "installed"
            /\ UNCHANGED <<dirs_made, root_i>>
       ELSE /\ dirs_made' = dirs_made \cup {install_dir}
            /\ root_i' = 1
            /\ pc' = "walk"
    /\ UNCHANGED <<environ, which_cmake, CMAKE_EXE, build_exists, build_initial,
                   command, events, bldVars>>
    /\ UNCHANGED <<src_files, headers, force, installed, outfiles, records, walked>>

\* Lines 95-102: one file of the walk.
run_file ==
    /\ pc = "walk"
    /\ root_i <= Len(headers)
    /\ \E f \in NextInWalk(headers[root_i], src_files, walked) :
          LET header == headers[root_i]
              path == WalkPath(header, f)
              target == install_target(header, path)
              res == copy_file(f, target, src_files, installed, force)
          IN  /\ walked' = walked \cup {f}
              /\ IF EndsWith(NameOf(f), <<".", "h">>)
                 THEN /\ dirs_made' = dirs_made \cup {Dirname(target)}
                      /\ installed' = res.inst
                      /\ outfiles' = Append(outfiles, target)
                      /\ records' = Append(records,
                             [root |-> root_i, src |-> f, dst |-> target,
                              copied |-> res.copied])
                 ELSE UNCHANGED <<dirs_made, installed, outfiles, records>>
    /\ UNCHANGED <<pc, environ, which_cmake, CMAKE_EXE, build_exists, build_initial,
                   command, events, bldVars>>
    /\ UNCHANGED <<src_files, headers, force, root_i>>

\* Lines 93-94: the walk of one root is exhausted.
run_next_root ==
    /\ pc = "walk"
    /\ root_i <= Len(headers)
    /\ NextInWalk(headers[root_i], src_files, walked) = {}
    /\ root_i' = root_i + 1
    /\ walked' = {}
    /\ pc' = IF root_i + 1 > Len(headers) THEN "installed" ELSE "walk"
    /\ UNCHANGED <<environ, which_cmake, CMAKE_EXE, build_exists, build_initial,
                   command, events, bldVars>>
    /\ UNCHANGED <<src_files, headers, force, installed, dirs_made, outfiles, records>>

\* The installer's state before it runs.
InstIdle ==
    /\ headers = None
    /\ force = FALSE
    /\ installed = <<>>
    /\ dirs_made = {}
    /\ outfiles = <<>>
    /\ records = <<>>
    /\ root_i = 0
    /\ walked = {}

FileSystems ==
    UNION {[S -> Mtimes] : S \in SUBSET FileUniverse}

InitInstall ==
    /\ pc = "import"
    /\ environ = MkEnv([k \in {"CMAKE_EXE"} |-> None])
    /\ which_cmake = WhichPath
    /\ CMAKE_EXE = None
    /\ build_exists = TRUE
    /\ build_initial = build_exists
    /\ command = "none"
    /\ extensions = <<>>
    /\ debug = FALSE
    /\ idx = 0
    /\ build_temp_exists = FALSE
    /\ procs = <<>>
    /\ running = {}
    /\ events = <<>>
    /\ \E fs \in FileSystems :
          src_files = [f \in DOMAIN fs |-> [content |-> ContentOf(f), mtime |-> fs[f]]]
    /\ InstIdle

NextInstall ==
    \/ ResolveCmake
    \/ CleanBuildDir
    \/ SetupInstallHeaders
    \/ run_begin
    \/ run_file
    \/ run_next_root

SpecInstall == InitInstall /\ [][NextInstall]_vars

(***************************************************************************)
(* The build specification.                                                *)
(***************************************************************************)
CommonChoices == {None} \cup SeqsUpTo(Chars, MaxEnvLen)

InitBuild ==
    /\ pc = "import"
    /\ \E exe \in {None, <<>>, ExePath}, common \in CommonChoices :
          environ = MkEnv([k \in {"CMAKE_EXE", "CMAKE_COMMON_VARIABLES"} |->
                              IF k = "CMAKE_EXE" THEN exe ELSE common])
    /\ which_cmake \in {None, WhichPath}
    /\ CMAKE_EXE = None
    /\ build_exists \in BOOLEAN
    /\ build_initial = build_exists
    /\ command = "none"
    /\ extensions = <<>>
    /\ debug = FALSE
    /\ idx = 0
    /\ build_temp_exists = FALSE
    /\ procs = <<>>
    /\ running = {}
    /\ events = <<>>
    /\ src_files = <<>>
    /\ InstIdle

NextBuild ==
    \/ ResolveCmake
    \/ CleanBuildDir
    \/ SetupBuildExt
    \/ build_extension_cmake
    \/ cmake_returns
    \/ make_returns
    \/ build_extension_super

SpecBuild == InitBuild /\ [][NextBuild]_vars

(***************************************************************************)
(* The whole program: either command over either set of inputs.            *)
(***************************************************************************)
Init == InitBuild \/ InitInstall

Next == NextBuild \/ NextInstall

Spec == Init /\ [][Next]_vars

(***************************************************************************)
(* Properties of the build run (checked under SpecBuild).                  *)
(***************************************************************************)
\* Positions of the history at which a descriptor's processing starts.
IsStart(k) == events[k].ev \in {"spawn", "super"}

\* The child processes spawned for extension i, in spawn order.
ProcsOf(i) == {p \in 1..Len(procs) : procs[p].ext = i}

\* The first child of an extension is its configure step.
IsConfigure(p) == p = 1 \/ procs[p - 1].ext # procs[p].ext

\* The maximal runs of characters of s that are not in seps.
RECURSIVE Tokens(_, _)
Tokens(s, seps) ==
    IF s = <<>> THEN <<>>
    ELSE IF Head(s) \in seps THEN Tokens(Tail(s), seps)
    ELSE LET n == CHOOSE n \in 1..Len(s) :
                     /\ \A k \in 1..n : s[k] \notin seps
                     /\ n = Len(s) \/ s[n + 1] \in seps
         IN  <<SubSeq(s, 1, n)>> \o Tokens(SubSeq(s, n + 1, Len(s)), seps)

ExtraArgs == EnvGet(environ, "CMAKE_COMMON_VARIABLES", <<>>)

Unresolvable ==
    /\ ~Truthy(EnvGet(environ, "CMAKE_EXE", None))
    /\ ~Truthy(which_cmake)

\* C1: when the CMAKE_EXE override is unset or empty and no cmake is on the
\* search path, the run ends with the missing-tool exit before any
\* descriptor is processed and no child process is ever spawned.
C1_NoToolNoChild ==
    Unresolvable =>
        /\ pc \in {"import", "exit1"}
        /\ procs = <<>>
        /\ running = {}
        /\ extensions = <<>>
        /\ \A k \in 1..Len(events) : events[k].ev = "sysexit"

C1_Witness ==
    /\ pc = "exit1"
    /\ "CMAKE_EXE" \in DOMAIN environ
    /\ environ["CMAKE_EXE"] = <<>>
    /\ which_cmake = None
    /\ procs = <<>>

\* C2: once a configure or build child has exited non-zero the run has
\* aborted: nothing is retried, no further child (in particular not the
\* failed configure's build step) and no standard build is started.
C2_FailFast ==
    \A k \in 1..Len(events) :
        (events[k].ev = "exit" /\ events[k].rc # 0) =>
            /\ pc = "error"
            /\ running = {}
            /\ Len(procs) = events[k].proc
            /\ \A j \in (k + 1)..Len(events) : events[j].ev = "raise"

C2_Witness ==
    /\ pc = "error"
    /\ idx < Len(extensions)
    /\ \E k \in 1..Len(events) :
          /\ events[k].ev = "exit"
          /\ events[k].rc # 0
          /\ IsConfigure(events[k].proc)

\* C3: processing is strictly sequential: descriptors start in registration
\* order, every child spawned earlier has exited before the next child or
\* standard build starts, a descriptor's configure child precedes its build
\* child, and at most one child is running at any moment.
C3_Sequential ==
    /\ Cardinality(running) <= 1
    /\ \A k \in 1..Len(events) :
          IsStart(k) =>
              \A j \in 1..(k - 1) :
                  /\ IsStart(j) => events[j].ext <= events[k].ext
                  /\ events[j].ev = "spawn" =>
                        \E m \in (j + 1)..(k - 1) :
                            events[m].ev = "exit" /\ events[m].proc = events[j].proc
    /\ \A p, q \in 1..Len(procs) :
          (p < q /\ procs[p].ext = procs[q].ext) =>
              /\ procs[p].argv[1] = CMAKE_EXE
              /\ procs[q].argv[1] = <<"make">>
    /\ \A p \in 1..Len(procs) : procs[p].cwd = build_temp

C3_Witness ==
    /\ pc = "make"
    /\ Cardinality(running) = 1
    /\ idx = 2
    /\ Len(procs) = 4

\* C4: every processed descriptor took exactly one path: a CMakeExtension
\* got one configure child and then one build child naming only that
\* descriptor, both in build_temp with the same environment copy, and no
\* standard build; a plain Extension got one standard build and no child.
C4_Dispatch ==
    \A i \in 1..Len(extensions) :
        (i < idx \/ pc = "done") =>
            LET ps == ProcsOf(i)
                supers == {k \in 1..Len(events) :
                              events[k].ev = "super" /\ events[k].ext = i}
            IN  IF isCMakeExtension(extensions[i])
                THEN /\ supers = {}
                     /\ Cardinality(ps) = 2
                     /\ \A c, b \in ps :
                           c < b =>
                               /\ procs[c].argv[1] = CMAKE_EXE
                               /\ procs[c].argv[2] = extensions[i].sourcedir
                               /\ procs[b].argv =
                                      <<<<"make">>, <<"-j">>, <<extensions[i].name>>>>
                               /\ procs[c].cwd = build_temp
                               /\ procs[b].cwd = build_temp
                               /\ procs[b].env = procs[c].env
                               /\ procs[c].env = environ
                ELSE /\ ps = {}
                     /\ Cardinality(supers) = 1

C4_Witness ==
    /\ pc = "done"
    /\ \E i, j \in 1..Len(extensions) :
          /\ isCMakeExtension(extensions[i])
          /\ ~isCMakeExtension(extensions[j])

\* C9 as stated: every invocation that has got past the preamble, the one
\* ending in the missing-tool exit included, has removed 'build'.
C9_EveryRunCleans ==
    pc \notin {"import", "rmtree"} =>
        /\ events # <<>>
        /\ events[1].ev = "rmtree"

\* C9 amended: every invocation that resolves the generator removes
\* 'build' (present or not) before any descriptor is built; an invocation
\* that ends in the missing-tool exit leaves 'build' as it was.
C9_CleanAfterToolCheck ==
    /\ pc \notin {"import", "rmtree", "exit1"} =>
          /\ events # <<>>
          /\ events[1].ev = "rmtree"
          /\ \A k \in 2..Len(events) : events[k].ev # "rmtree"
    /\ pc = "setup" => ~build_exists /\ ~build_temp_exists
    /\ pc = "exit1" =>
          /\ build_exists = build_initial
          /\ \A k \in 1..Len(events) : events[k].ev # "rmtree"

C9_Witness ==
    /\ pc = "setup"
    /\ build_initial
    /\ ~build_exists

\* The fixed head of a configure argument list.
HeadOK(p) ==
    LET a == procs[p].argv
    IN  /\ Len(a) >= 4
        /\ a[1] = CMAKE_EXE
        /\ a[2] = extensions[procs[p].ext].sourcedir
        /\ a[3] = <<"-DCMAKE_LIBRARY_OUTPUT_DIRECTORY=",
                    "/", "cwd", "/", "build", "/", "lib">>
        /\ a[4] = <<"-DCMAKE_BUILD_TYPE=", IF debug THEN "Debug" ELSE "Release">>
        /\ (a[4][2] = "Debug") <=> debug

SameForSameInput ==
    \A p, q \in 1..Len(procs) :
        (/\ IsConfigure(p)
         /\ IsConfigure(q)
         /\ extensions[procs[p].ext] = extensions[procs[q].ext]) =>
            procs[p].argv = procs[q].argv

\* C10 as stated: the tail of every configure argument list is the
\* whitespace-split token list of CMAKE_COMMON_VARIABLES: no token is
\* empty or holds a whitespace character, and an unset or all-whitespace
\* variable appends nothing.
C10_WhitespaceSplit ==
    \A p \in 1..Len(procs) :
        IsConfigure(p) =>
            LET a == procs[p].argv
                tail == SubSeq(a, 5, Len(a))
            IN  /\ HeadOK(p)
                /\ tail = Tokens(ExtraArgs, Whitespace)
                /\ \A t \in 1..Len(tail) :
                      /\ tail[t] # <<>>
                      /\ \A c \in 1..Len(tail[t]) : tail[t][c] \notin Whitespace
                /\ (\A c \in 1..Len(ExtraArgs) : ExtraArgs[c] \in Whitespace) =>
                      tail = <<>>

\* C10 amended: the head is as stated and the tail is the list of
\* space-separated tokens of CMAKE_COMMON_VARIABLES: no token is empty or
\* holds a space (other whitespace stays inside tokens), an unset or
\* all-space variable appends nothing, and equal descriptors get equal
\* lists.
C10_SpaceSplit ==
    /\ SameForSameInput
    /\ \A p \in 1..Len(procs) :
          IsConfigure(p) =>
              LET a == procs[p].argv
                  tail == SubSeq(a, 5, Len(a))
              IN  /\ HeadOK(p)
                  /\ tail = Tokens(ExtraArgs, {" "})
                  /\ \A t \in 1..Len(tail) :
                        /\ tail[t] # <<>>
                        /\ \A c \in 1..Len(tail[t]) : tail[t][c] # " "
                  /\ (\A c \in 1..Len(ExtraArgs) : ExtraArgs[c] = " ") =>
                        tail = <<>>

C10_Witness ==
    /\ Len(procs) >= 1
    /\ ExtraArgs = <<" ", "a">>
    /\ Len(procs[1].argv) = 5
    /\ debug

(***************************************************************************)
(* Properties of the header installation (checked under SpecInstall).      *)
(***************************************************************************)
\* The components of a file below a root, and the place the file has to
\* get for the tree below the root to be preserved.
RelComps(root, f) == SubSeq(Comps(f), Len(Comps(root)) + 1, Len(Comps(f)))

RECURSIVE JoinComps(_)
JoinComps(cs) ==
    IF cs = <<>> THEN <<>>
    ELSE IF Len(cs) = 1 THEN cs[1]
    ELSE cs[1] \o <<"/">> \o JoinComps(Tail(cs))

StartsWith(s, pre) == Len(s) >= Len(pre) /\ SubSeq(s, 1, Len(pre)) = pre

RefTarget(root, f) == install_dir \o <<"/">> \o JoinComps(RelComps(root, f))

HeaderFilesUnder(root) ==
    {f \in FilesUnder(root, src_files) : EndsWith(f, <<".", "h">>)}

RootList == IF Truthy(headers) THEN headers ELSE <<>>

\* The header files the run has to handle: (root position, file).
Work == {rf \in (1..Len(RootList)) \X DOMAIN src_files :
            rf[2] \in HeaderFilesUnder(RootList[rf[1]])}

RecordsFor(dst) == {k \in 1..Len(records) : records[k].dst = dst}

Count(seq, x) == Cardinality({k \in 1..Len(seq) : seq[k] = x})

\* C5 as stated: after a successful run every header file under every root
\* is at install_dir/<path below the root> with the same bytes.
C5_AllHeadersInstalled ==
    pc = "installed" =>
        \A rf \in Work :
            LET dst == RefTarget(RootList[rf[1]], rf[2])
            IN  /\ dst \in DOMAIN installed
                /\ installed[dst].content = src_files[rf[2]].content

\* C6 as stated: two roots holding a header with the same relative path
\* give exactly one reported entry for that path, and the installed file
\* has the later root's bytes.
C6_OneRecordLaterWins ==
    pc = "installed" =>
        \A a, b \in Work :
            (/\ a[1] < b[1]
             /\ RootList[a[1]] # RootList[b[1]]
             /\ RelComps(RootList[a[1]], a[2]) = RelComps(RootList[b[1]], b[2])
             /\ \A c \in Work :
                   RelComps(RootList[c[1]], c[2]) = RelComps(RootList[b[1]], b[2])
                       => c[1] <= b[1]) =>
                LET dst == RefTarget(RootList[b[1]], b[2])
                IN  /\ Count(outfiles, dst) = 1
                    /\ dst \in DOMAIN installed
                    /\ installed[dst].content = src_files[b[2]].content

\* The entry whose bytes end up at dst: with force the last one handled,
\* without it the first among the newest ones.
Winner(dst) ==
    LET ks == RecordsFor(dst)
        mt(k) == src_files[records[k].src].mtime
    IN  IF force
        THEN CHOOSE k \in ks : \A j \in ks : j <= k
        ELSE CHOOSE k \in ks :
                 /\ \A j \in ks : mt(j) <= mt(k)
                 /\ \A j \in ks : mt(j) = mt(k) => k <= j

\* C6 amended: the reported list has one entry per header file handled, so
\* two files arriving at one path give two entries for it; the installed
\* file has the bytes of the later one when force is set or the later file
\* is strictly newer, and keeps the earlier bytes otherwise.
C6_EntryPerFileNewestWins ==
    pc = "installed" =>
        /\ Len(outfiles) = Cardinality(Work)
        /\ \A dst \in DOMAIN installed :
              /\ Count(outfiles, dst) = Cardinality(RecordsFor(dst))
              /\ installed[dst].content = src_files[records[Winner(dst)].src].content
        /\ \A k, l \in 1..Len(records) :
              (/\ k < l
               /\ records[k].dst = records[l].dst
               /\ Cardinality(RecordsFor(records[k].dst)) = 2) =>
                  LET dst == records[k].dst
                      fk == src_files[records[k].src]
                      fl == src_files[records[l].src]
                  IN  /\ Count(outfiles, dst) = 2
                      /\ installed[dst].content =
                             IF force \/ fl.mtime > fk.mtime
                             THEN fl.content ELSE fk.content

C6_Witness ==
    /\ pc = "installed"
    /\ ~force
    /\ \E k, l \in 1..Len(records) :
          /\ records[k].root < records[l].root
          /\ records[k].dst = records[l].dst
          /\ src_files[records[k].src].mtime > src_files[records[l].src].mtime
          /\ src_files[records[k].src].content # src_files[records[l].src].content

\* C7 as stated: every handled header goes to the place below install_dir
\* that it had below its root, for every root string and every nesting.
C7_RelativeInside ==
    \A k \in 1..Len(records) :
        LET r == records[k]
        IN  /\ StartsWith(r.dst, install_dir \o <<"/">>)
            /\ r.dst = RefTarget(headers[r.root], r.src)

\* C8: with no header roots the run succeeds without creating the install
\* directory, copying a file or reporting an entry; a root without header
\* files adds no entry and no file.
C8_NoRootsNoWrites ==
    /\ (pc = "installed" /\ ~Truthy(headers)) =>
          /\ DOMAIN installed = {}
          /\ dirs_made = {}
          /\ outfiles = <<>>
    /\ \A r \in 1..Len(RootList) :
          HeaderFilesUnder(RootList[r]) = {} =>
              /\ \A k \in 1..Len(records) : records[k].root # r
              /\ Len(outfiles) =
                     Cardinality({k \in 1..Len(records) : records[k].root # r})
    /\ pc \in {"walk", "installed"} =>
          Cardinality(DOMAIN installed) <= Cardinality(Work)

C8_Witness ==
    /\ pc = "installed"
    /\ headers = <<>>
    /\ DOMAIN src_files # {}

====
